---- MODULE Spec2Model ----
(***************************************************************************)
(* The Gomoku room server (server.js): the process-wide registry `games`,  *)
(* the Socket.IO connections and their room membership, and the five       *)
(* event handlers createGame, joinGame, placeStone, resetGame, disconnect. *)
(* Node runs one handler to completion before the next, so every handler   *)
(* is one atomic action.  A handler is written as an operator from the     *)
(* state and the inbound message to a result record                        *)
(*     [games, keyOrder, joined, ack, emits]                               *)
(* (the new registry, the value handed to the acknowledgement callback,    *)
(* and the broadcasts in the order they are emitted); the action of the    *)
(* handler installs the result's state.                                    *)
(* checkVictory is a pure function of its arguments; victoryCall holds one *)
(* call of it, the arguments and, once it has returned, the result.        *)
(***************************************************************************)
EXTENDS Integers, Sequences, FiniteSets, TLC

VARIABLES games, keyOrder, sockets, joined, victoryCall

vars == <<games, keyOrder, sockets, joined, victoryCall>>

(***************************************************************************)
(* Program constants.                                                      *)
(***************************************************************************)
BoardSize == 15

WinLength == 5

CodeLength == 6

Characters ==
    { "A", "B", "C", "D", "E", "F", "G", "H", "I", "J", "K", "L", "M",
      "N", "O", "P", "Q", "R", "S", "T", "U", "V", "W", "X", "Y", "Z",
      "0", "1", "2", "3", "4", "5", "6", "7", "8", "9" }

(***************************************************************************)
(* Bounds of the model.                                                    *)
(***************************************************************************)
\* connections opened over a run; socket ids are 1..MaxSockets
MaxSockets == 2

\* a move that would lift a score above MaxScore is not explored
MaxScore == 1

SocketIds == 1..MaxSockets

(***************************************************************************)
(* Room codes are strings; a string is modelled as the sequence of its     *)
(* characters so that toUpperCase is computed, not assumed.                *)
(***************************************************************************)
LowerLetters ==
    << "a", "b", "c", "d", "e", "f", "g", "h", "i", "j", "k", "l", "m",
       "n", "o", "p", "q", "r", "s", "t", "u", "v", "w", "x", "y", "z" >>

UpperLetters ==
    << "A", "B", "C", "D", "E", "F", "G", "H", "I", "J", "K", "L", "M",
       "N", "O", "P", "Q", "R", "S", "T", "U", "V", "W", "X", "Y", "Z" >>

UpperChar(c) ==
    IF \E i \in 1..Len(LowerLetters) : LowerLetters[i] = c
    THEN UpperLetters[CHOOSE i \in 1..Len(LowerLetters) : LowerLetters[i] = c]
    ELSE c

\* ToUpperCase that hands the string back as given
ToUpperCaseAsGiven(s) == s

ToUpperCase(s) == [i \in 1..Len(s) |-> UpperChar(s[i])]

LowerChar(c) ==
    IF \E i \in 1..Len(UpperLetters) : UpperLetters[i] = c
    THEN LowerLetters[CHOOSE i \in 1..Len(UpperLetters) : UpperLetters[i] = c]
    ELSE c

ToLowerCase(s) == [i \in 1..Len(s) |-> LowerChar(s[i])]

\* the codes Math.random is taken to produce (each holds a letter, so the
\* keys of `games` are listed by Object.entries in insertion order)
CodeA == << "A", "B", "1", "2", "C", "3" >>

CodeB == << "Q", "7", "X", "0", "Z", "K" >>

\* a code no createGame of the model ever issues
CodeNone == << "N", "0", "N", "E", "0", "0" >>

\* what a client may send as `room`: a code or its lower-case spelling
RoomInputs(codes) == codes \cup { ToLowerCase(c) : c \in codes }

\* joinGame is also sent an unknown code and no code (undefined or '')
JoinInputs(codes) == RoomInputs(codes) \cup { CodeNone, << >> }

(***************************************************************************)
(* Boards.                                                                 *)
(* A board is the size x size matrix of cell values 0, 1, 2, held by its   *)
(* dimension and the map of its non-zero cells: Cell reads a cell of the   *)
(* matrix, OnBoard says whether board[row][col] is defined.                *)
(***************************************************************************)
createEmptyBoard(size) == [size |-> size, stones |-> [k \in {} |-> 0]]

\* board.length
BoardLength(board) == board.size

\* OnBoard with the upper limit off by one
OnBoardInclusive(board, row, col) ==
    /\ row \in 0..board.size
    /\ col \in 0..board.size

\* board[row] and board[row][col] are both defined
OnBoard(board, row, col) ==
    /\ row \in 0..(board.size - 1)
    /\ col \in 0..(board.size - 1)

\* board[row][col], for a cell on the board
Cell(board, row, col) ==
    IF <<row, col>> \in DOMAIN board.stones THEN board.stones[<<row, col>>] ELSE 0

\* board[row][col] = value
SetCell(board, row, col, value) ==
    [board EXCEPT !.stones =
        [k \in DOMAIN board.stones \cup {<<row, col>>} |->
            IF k = <<row, col>> THEN value ELSE board.stones[k]]]

\* the cells walked from (x,y) in steps of (dx,dy) while on the board and
\* holding `player`: one of the two while loops of checkVictory
RECURSIVE Traverse(_, _, _, _, _, _)
Traverse(board, x, y, dx, dy, player) ==
    LET size == BoardLength(board) IN
    IF x >= 0 /\ x < size /\ y >= 0 /\ y < size /\ Cell(board, x, y) = player
    THEN << <<x, y>> >> \o Traverse(board, x + dx, y + dy, dx, dy, player)
    ELSE << >>

\* directions with the first two entries swapped
directionsHorizontalFirst == << <<0, 1>>, <<1, 0>>, <<1, 1>>, <<1, -1>> >>

directions == << <<1, 0>>, <<0, 1>>, <<1, 1>>, <<1, -1>> >>

\* LinePositions without the backward traversal
LinePositionsForwardOnly(board, row, col, player, d) ==
    << <<row, col>> >>
        \o Traverse(board, row + d[1], col + d[2], d[1], d[2], player)

\* positions collected for one direction: the placed cell, forward, backward
LinePositions(board, row, col, player, d) ==
    << <<row, col>> >>
        \o Traverse(board, row + d[1], col + d[2], d[1], d[2], player)
        \o Traverse(board, row - d[1], col - d[2], -d[1], -d[2], player)

\* checkVictoryFrom that asks for more than WinLength cells (count > 5)
RECURSIVE checkVictoryFromOverFive(_, _, _, _, _)
checkVictoryFromOverFive(board, row, col, player, k) ==
    IF k > Len(directions) THEN << >>
    ELSE LET positions == LinePositions(board, row, col, player, directions[k]) IN
         IF Len(positions) > WinLength THEN positions
         ELSE checkVictoryFromOverFive(board, row, col, player, k + 1)

\* null is modelled as the empty sequence: a returned line has at least
\* WinLength cells, and the caller only tests the result for truthiness
RECURSIVE checkVictoryFrom(_, _, _, _, _)
checkVictoryFrom(board, row, col, player, k) ==
    IF k > Len(directions) THEN << >>
    ELSE LET positions == LinePositions(board, row, col, player, directions[k]) IN
         IF Len(positions) >= WinLength THEN positions
         ELSE checkVictoryFrom(board, row, col, player, k + 1)

\* checkVictory that returns the line sorted by row, then column
checkVictoryAscending(board, row, col, player) ==
    LET line == checkVictoryFrom(board, row, col, player, 1)
        Before(a, b) == a[1] < b[1] \/ (a[1] = b[1] /\ a[2] < b[2])
        Rank(i) == 1 + Cardinality({ j \in 1..Len(line) : Before(line[j], line[i]) })
    IN [n \in 1..Len(line) |-> line[CHOOSE i \in 1..Len(line) : Rank(i) = n]]

checkVictory(board, row, col, player) == checkVictoryFrom(board, row, col, player, 1)

(***************************************************************************)
(* Helpers on JavaScript values.                                           *)
(***************************************************************************)
\* Array.prototype.indexOf, 0-based, -1 when absent
indexOf(players, id) ==
    IF \E i \in 1..Len(players) : players[i] = id
    THEN (CHOOSE i \in 1..Len(players) :
              players[i] = id /\ \A j \in 1..(i - 1) : players[j] # id) - 1
    ELSE -1

\* Splice that always takes the first entry out (players.shift())
SpliceFirst(players, index) == Tail(players)

\* players.splice(index, 1), index 0-based
Splice(players, index) ==
    [i \in 1..(Len(players) - 1) |-> IF i <= index THEN players[i] ELSE players[i + 1]]

\* obj[key] = value
SetKey(obj, key, value) == [k \in DOMAIN obj \cup {key} |-> IF k = key THEN value ELSE obj[k]]

\* delete obj[key]
DeleteKey(obj, key) == [k \in DOMAIN obj \ {key} |-> obj[k]]

EmptyObject == [k \in {} |-> 0]

\* seq without its entries equal to x
RECURSIVE Without(_, _)
Without(seq, x) ==
    IF seq = << >> THEN << >>
    ELSE IF Head(seq) = x THEN Without(Tail(seq), x)
    ELSE << Head(seq) >> \o Without(Tail(seq), x)

\* the sockets io.to(room) reaches: those that joined the Socket.IO room
RoomMembers(jn, room) == { s \in DOMAIN jn : room \in jn[s] }

Emit(event, to, data) == [event |-> event, to |-> to, data |-> data]

Success == [success |-> TRUE]

Error(msg) == [error |-> msg]

IsSuccess(ack) == "success" \in DOMAIN ack

\* a handler that takes no callback (disconnect) acknowledges nothing
NoAck == [none |-> TRUE]

\* Rejected that still broadcasts the move to every room joined
RejectedBroadcasting(ack) ==
    [games |-> games, keyOrder |-> keyOrder, joined |-> joined,
     ack |-> ack,
     emits |-> << Emit("moveMade", UNION { joined[s] : s \in DOMAIN joined }, ack) >>]

Rejected(ack) ==
    [games |-> games, keyOrder |-> keyOrder, joined |-> joined,
     ack |-> ack, emits |-> << >>]

(***************************************************************************)
(* generateRoomCode: the codes the do-while loop can return, i.e. the      *)
(* draws that are not keys of `games`.                                     *)
(***************************************************************************)
\* generateRoomCode without the retry on a code in use
generateRoomCodeOnce(draws) ==
    { code \in draws :
        /\ Len(code) = CodeLength
        /\ \A i \in 1..Len(code) : code[i] \in Characters }

generateRoomCode(draws) ==
    { code \in draws :
        /\ Len(code) = CodeLength
        /\ \A i \in 1..Len(code) : code[i] \in Characters
        /\ code \notin DOMAIN games }

(***************************************************************************)
(* socket.on('createGame')                                                 *)
(***************************************************************************)
createGame(id, name, room) ==
    LET game == [board |-> createEmptyBoard(BoardSize),
                 players |-> << id >>,
                 names |-> SetKey(EmptyObject, id, IF name = "" THEN "Player 1" ELSE name),
                 scores |-> SetKey(EmptyObject, id, 0),
                 currentTurn |-> 0,
                 winnerPositions |-> << >>]
    IN [games |-> SetKey(games, room, game),
        keyOrder |-> IF room \in DOMAIN games THEN keyOrder ELSE Append(keyOrder, room),
        joined |-> [joined EXCEPT ![id] = @ \cup {room}],
        ack |-> [room |-> room],
        emits |-> << Emit("gameCreated", {id}, [room |-> room]) >>]

(***************************************************************************)
(* socket.on('joinGame')                                                   *)
(***************************************************************************)
\* RoomIsFull that lets a third player in
RoomIsFullAboveTwo(game) == Len(game.players) > 2

\* game.players.length >= 2
RoomIsFull(game) == Len(game.players) >= 2

joinGame(id, roomIn, name) ==
    LET room == IF roomIn = << >> THEN << >> ELSE ToUpperCase(roomIn) IN
    IF room \notin DOMAIN games THEN Rejected(Error("Game code not found"))
    ELSE IF RoomIsFull(games[room]) THEN Rejected(Error("Game is full"))
    ELSE
    LET game == games[room]
        game2 == [game EXCEPT
                    !.players = Append(game.players, id),
                    !.names = SetKey(game.names, id, IF name = "" THEN "Player 2" ELSE name),
                    !.scores = SetKey(game.scores, id, 0)]
        joined2 == [joined EXCEPT ![id] = @ \cup {room}]
    IN [games |-> [games EXCEPT ![room] = game2],
        keyOrder |-> keyOrder,
        joined |-> joined2,
        ack |-> Success,
        emits |-> << Emit("gameStarted", RoomMembers(joined2, room),
                          [room |-> room,
                           board |-> game2.board,
                           players |-> game2.players,
                           names |-> game2.names,
                           scores |-> game2.scores,
                           currentTurn |-> game2.currentTurn]) >>]

(***************************************************************************)
(* socket.on('placeStone')                                                 *)
(***************************************************************************)
\* scoreRound that passes the turn on as after any other move
scoreRoundPassingTurn(game, playerIndex, winPositions) ==
    LET playerId == game.players[playerIndex + 1] IN
    [game EXCEPT
        !.scores = SetKey(game.scores, playerId,
                          (IF playerId \in DOMAIN game.scores
                           THEN game.scores[playerId] ELSE 0) + 1),
        !.winnerPositions = winPositions,
        !.board = createEmptyBoard(BoardSize),
        !.currentTurn = 1 - game.currentTurn]

\* the branch taken when checkVictory returns a line: the mover scores, the
\* board is recreated and the mover keeps the turn
scoreRound(game, playerIndex, winPositions) ==
    LET playerId == game.players[playerIndex + 1] IN
    [game EXCEPT
        !.scores = SetKey(game.scores, playerId,
                          (IF playerId \in DOMAIN game.scores
                           THEN game.scores[playerId] ELSE 0) + 1),
        !.winnerPositions = winPositions,
        !.board = createEmptyBoard(BoardSize),
        !.currentTurn = playerIndex]

\* passTurn that leaves the turn with the mover
passTurnKeepingTurn(game, board2) == [game EXCEPT !.board = board2]

\* the else branch: the board keeps the stone and the turn alternates
passTurn(game, board2) ==
    [game EXCEPT !.board = board2, !.currentTurn = 1 - game.currentTurn]

placeStone(id, room, row, col) ==
    IF room \notin DOMAIN games THEN Rejected(Error("Game not found"))
    ELSE
    LET game == games[room]
        playerIndex == indexOf(game.players, id)
    IN
    IF playerIndex = -1 THEN Rejected(Error("Player not in game"))
    ELSE IF playerIndex # game.currentTurn THEN Rejected(Error("Not your turn"))
    ELSE IF ~OnBoard(game.board, row, col) THEN Rejected(Error("Invalid position"))
    ELSE IF Cell(game.board, row, col) # 0 THEN Rejected(Error("Cell already occupied"))
    ELSE
    LET playerValue == playerIndex + 1
        board2 == SetCell(game.board, row, col, playerValue)
        winPositions == checkVictory(board2, row, col, playerValue)
        game2 == IF winPositions # << >>
                 THEN scoreRound([game EXCEPT !.board = board2], playerIndex, winPositions)
                 ELSE passTurn(game, board2)
        to == RoomMembers(joined, room)
        scoreUpdate ==
            IF winPositions # << >>
            THEN << Emit("scoreUpdate", to,
                         [scores |-> game2.scores,
                          winner |-> game.players[playerIndex + 1],
                          winPositions |-> winPositions]) >>
            ELSE << >>
        moveMade ==
            Emit("moveMade", to,
                 [room |-> room, row |-> row, col |-> col,
                  playerIndex |-> playerIndex,
                  board |-> game2.board,
                  currentTurn |-> game2.currentTurn])
    IN [games |-> [games EXCEPT ![room] = game2],
        keyOrder |-> keyOrder,
        joined |-> joined,
        ack |-> Success,
        emits |-> scoreUpdate \o << moveMade >>]

(***************************************************************************)
(* socket.on('resetGame')                                                  *)
(***************************************************************************)
\* resetScores that only empties the scores object
resetScoresEmptied(players) == [p \in {} |-> 0]

\* game.scores = {}; game.players.forEach((id) => { game.scores[id] = 0; })
resetScores(players) == [p \in { players[i] : i \in 1..Len(players) } |-> 0]

resetGame(id, room) ==
    IF room \notin DOMAIN games THEN Rejected(Error("Game not found"))
    ELSE
    LET game == games[room]
        game2 == [game EXCEPT
                    !.board = createEmptyBoard(BoardSize),
                    !.scores = resetScores(game.players),
                    !.currentTurn = 0]
    IN [games |-> [games EXCEPT ![room] = game2],
        keyOrder |-> keyOrder,
        joined |-> joined,
        ack |-> Success,
        emits |-> << Emit("gameReset", RoomMembers(joined, room),
                          [board |-> game2.board, scores |-> game2.scores]) >>]

(***************************************************************************)
(* socket.on('disconnect').  Socket.IO has taken the socket out of all its *)
(* rooms before the handler runs.  The loop visits the games in key order  *)
(* and stops at the first one that seats the socket.                       *)
(***************************************************************************)
\* the first room of Object.entries(games) whose players hold id, or << >>
RECURSIVE FirstRoomOf(_, _)
FirstRoomOf(order, id) ==
    IF order = << >> THEN << >>
    ELSE IF indexOf(games[Head(order)].players, id) # -1 THEN Head(order)
    ELSE FirstRoomOf(Tail(order), id)

disconnect(id) ==
    LET joined2 == [joined EXCEPT ![id] = {}]
        room == FirstRoomOf(keyOrder, id)
    IN
    IF room = << >>
    THEN [games |-> games, keyOrder |-> keyOrder, joined |-> joined2,
          ack |-> NoAck, emits |-> << >>]
    ELSE
    LET game == games[room]
        index == indexOf(game.players, id)
        players2 == Splice(game.players, index)
        game2 == [game EXCEPT
                    !.players = players2,
                    !.names = DeleteKey(game.names, id),
                    !.scores = DeleteKey(game.scores, id)]
        game3 == [game2 EXCEPT
                    !.board = createEmptyBoard(BoardSize),
                    !.currentTurn = 0]
    IN [games |-> IF Len(players2) = 0 THEN DeleteKey(games, room)
                  ELSE [games EXCEPT ![room] = game3],
        keyOrder |-> IF Len(players2) = 0 THEN Without(keyOrder, room) ELSE keyOrder,
        joined |-> joined2,
        ack |-> NoAck,
        emits |-> << Emit("playerLeft", RoomMembers(joined2, room), [playerId |-> id]) >>]

(***************************************************************************)
(* The state machine.                                                      *)
(***************************************************************************)
\* no call of checkVictory is under way
NoCall ==
    [board |-> createEmptyBoard(BoardSize), row |-> 0, col |-> 0, player |-> 0,
     state |-> "none", result |-> << >>]

Init ==
    /\ games = EmptyObject
    /\ keyOrder = << >>
    /\ sockets = [s \in SocketIds |-> "unopened"]
    /\ joined = [s \in SocketIds |-> {}]
    /\ victoryCall = NoCall

\* io.on('connection'): a client connects and gets a socket id never used
\* before (the ids are taken in increasing order)
Connect(id) ==
    /\ sockets[id] = "unopened"
    /\ \A s \in SocketIds : s < id => sockets[s] # "unopened"
    /\ sockets' = [sockets EXCEPT ![id] = "connected"]
    /\ UNCHANGED <<games, keyOrder, joined, victoryCall>>

CreateGame(id, name, draws) ==
    /\ sockets[id] = "connected"
    /\ \E room \in generateRoomCode(draws) :
         LET r == createGame(id, name, room) IN
         /\ games' = r.games
         /\ keyOrder' = r.keyOrder
         /\ joined' = r.joined
    /\ UNCHANGED <<sockets, victoryCall>>

JoinGame(id, room, name) ==
    LET r == joinGame(id, room, name) IN
    /\ sockets[id] = "connected"
    /\ games' = r.games
    /\ keyOrder' = r.keyOrder
    /\ joined' = r.joined
    /\ UNCHANGED <<sockets, victoryCall>>

\* no score of the registry gs is above bound
ScoresWithin(gs, bound) ==
    \A c \in DOMAIN gs : \A p \in DOMAIN gs[c].scores : gs[c].scores[p] <= bound

PlaceStone(id, room, row, col) ==
    LET r == placeStone(id, room, row, col) IN
    /\ sockets[id] = "connected"
    /\ ScoresWithin(r.games, MaxScore)
    /\ games' = r.games
    /\ keyOrder' = r.keyOrder
    /\ joined' = r.joined
    /\ UNCHANGED <<sockets, victoryCall>>

ResetGame(id, room) ==
    LET r == resetGame(id, room) IN
    /\ sockets[id] = "connected"
    /\ games' = r.games
    /\ keyOrder' = r.keyOrder
    /\ joined' = r.joined
    /\ UNCHANGED <<sockets, victoryCall>>

Disconnect(id) ==
    LET r == disconnect(id) IN
    /\ sockets[id] = "connected"
    /\ games' = r.games
    /\ keyOrder' = r.keyOrder
    /\ joined' = r.joined
    /\ sockets' = [sockets EXCEPT ![id] = "disconnected"]
    /\ UNCHANGED victoryCall

\* the steps of the clients `ids`, which draw room codes from `codes`, give
\* the names `names`, and of which client id clicks the cells coords[id]
NextOver(ids, codes, names, coords) ==
    \E id \in ids :
        \/ Connect(id)
        \/ \E name \in names : CreateGame(id, name, codes)
        \/ \E room \in JoinInputs(codes), name \in names : JoinGame(id, room, name)
        \/ \E room \in RoomInputs(codes), rc \in coords[id] : PlaceStone(id, room, rc[1], rc[2])
        \/ \E room \in RoomInputs(codes) : ResetGame(id, room)
        \/ Disconnect(id)

(***************************************************************************)
(* Spec: one room code.  The clients with an odd id click the cells of row *)
(* 7, columns 3..7, those with an even id the cells of column 7, rows      *)
(* 3..7: two lines of five that meet in (7,7), so that rounds are won,     *)
(* lines are blocked and occupied cells are clicked.  All also click off   *)
(* the board.                                                              *)
(***************************************************************************)
PlaySockets == SocketIds

PlayCodes == { CodeA }

PlayNames == { "Ann" }

OffBoard == { <<-1, 7>>, <<7, BoardSize>> }

PlayCoords ==
    [id \in SocketIds |->
        (IF id % 2 = 1 THEN { <<7, c>> : c \in 3..7 } ELSE { <<r, 7>> : r \in 3..7 })
            \cup OffBoard]

Next == NextOver(PlaySockets, PlayCodes, PlayNames, PlayCoords)

Spec == Init /\ [][Next]_vars

(***************************************************************************)
(* SpecRooms: two room codes, given and missing names, one cell of the     *)
(* board and one off it, for the life of several rooms side by side.       *)
(***************************************************************************)
RoomsCodes == { CodeA, CodeB }

RoomsNames == { "", "Ann" }

RoomsCoords == [id \in SocketIds |-> { <<7, 7>>, <<-1, 7>> }]

NextRooms == NextOver(SocketIds, RoomsCodes, RoomsNames, RoomsCoords)

SpecRooms == Init /\ [][NextRooms]_vars

(***************************************************************************)
(* SpecLines: as Spec, with the clicks on the two diagonals through (7,7): *)
(* the clients with an odd id click the cells (3,3)..(7,7), those with an  *)
(* even id the cells (3,11)..(7,7).                                        *)
(***************************************************************************)
LinesCoords ==
    [id \in SocketIds |->
        (IF id % 2 = 1 THEN { <<7 - j, 7 - j>> : j \in 0..4 }
                       ELSE { <<7 - j, 7 + j>> : j \in 0..4 })
            \cup OffBoard]

NextLines == NextOver(PlaySockets, PlayCodes, PlayNames, LinesCoords)

SpecLines == Init /\ [][NextLines]_vars

(***************************************************************************)
(* SpecDraw: the end of a round in which nobody completes a line.  The     *)
(* round starts from the state the server is in after socket 1 created     *)
(* session AB12C3, socket 2 joined it, and the two placed 219 stones in    *)
(* turn, seat 0 first: 110 stones of seat 0 and 109 of seat 1, each on a   *)
(* cell of its own value in DrawPattern, so that it is seat 1's turn.  No  *)
(* five cells in a line of DrawPattern hold one value, so none of these    *)
(* moves completed a line and all were plain accepted moves of placeStone. *)
(* The six cells of DrawEmpties are still empty.                           *)
(***************************************************************************)
\* the value at (row,col) of a full board without a line: on every row the
\* values run 1 1 2 2 1 1 2 2 ..., shifted by two columns from row to row
DrawPattern(row, col) == IF (col + 2 * row) % 4 \in {0, 1} THEN 1 ELSE 2

\* the cells not yet played: three hold 1 in DrawPattern and three hold 2
DrawEmpties == { <<2, 2>>, <<2, 11>>, <<7, 7>>, <<7, 8>>, <<12, 3>>, <<12, 12>> }

\* the board after the 219 moves
DrawBoard ==
    [size |-> BoardSize,
     stones |-> [k \in ((0..(BoardSize - 1)) \X (0..(BoardSize - 1))) \ DrawEmpties |->
                    DrawPattern(k[1], k[2])]]

\* the cells clicked: the empty ones and an occupied one
DrawCoords == DrawEmpties \cup { <<0, 0>> }

InitDraw ==
    /\ games = SetKey(EmptyObject, CodeA,
                      [board |-> DrawBoard,
                       players |-> << 1, 2 >>,
                       names |-> [p \in {1, 2} |-> "Ann"],
                       scores |-> [p \in {1, 2} |-> 0],
                       currentTurn |-> 1,
                       winnerPositions |-> << >>])
    /\ keyOrder = << CodeA >>
    /\ sockets = [s \in SocketIds |-> IF s \in {1, 2} THEN "connected" ELSE "unopened"]
    /\ joined = [s \in SocketIds |-> IF s \in {1, 2} THEN {CodeA} ELSE {}]
    /\ victoryCall = NoCall

NextDraw ==
    \E id \in SocketIds :
        \/ \E rc \in DrawCoords : PlaceStone(id, CodeA, rc[1], rc[2])
        \/ ResetGame(id, CodeA)
        \/ Disconnect(id)

SpecDraw == InitDraw /\ [][NextDraw]_vars

(***************************************************************************)
(* SpecDetect: one call of checkVictory.  placeStone calls it with the     *)
(* board that already holds the mover's value at (row,col).  The boards    *)
(* drawn have the mover's stones at any of the cells within MaxReach of    *)
(* (row,col) on one axis, the other cells of that stretch empty or the     *)
(* opponent's, and a second stretch of the mover's stones across it; the   *)
(* calls are made in the middle of the board and next to its corner.       *)
(***************************************************************************)
\* how far from (row,col) the stones of the first stretch are drawn
MaxReach == 3

DetectCenters == { <<7, 7>>, <<1, 13>> }

SegmentsAcross == { {}, {-2, -1, 1, 2}, {-4, -3, -2, -1}, {1, 2, 3, 4} }

\* the cells of the board at the offsets offs from center in direction d
CellsAlong(center, d, offs) ==
    { cell \in { <<center[1] + k * d[1], center[2] + k * d[2]>> : k \in offs } :
        /\ cell[1] \in 0..(BoardSize - 1)
        /\ cell[2] \in 0..(BoardSize - 1) }

\* the board with player's value at the cells own and the other value at
\* the cells other
BoardWith(own, other, player) ==
    [size |-> BoardSize,
     stones |-> [k \in own \cup other |-> IF k \in own THEN player ELSE 3 - player]]

VictoryCalls ==
    { LET reach == (-MaxReach..MaxReach) \ {0}
          own == {center} \cup CellsAlong(center, d1, offs) \cup CellsAlong(center, d2, seg)
          other == IF blocked THEN CellsAlong(center, d1, reach \ offs) \ own ELSE {}
      IN [board |-> BoardWith(own, other, player),
          row |-> center[1], col |-> center[2], player |-> player,
          state |-> "called", result |-> << >>] :
        center \in DetectCenters, player \in 1..2,
        d1 \in { directions[i] : i \in 1..Len(directions) },
        offs \in SUBSET ((-MaxReach..MaxReach) \ {0}),
        blocked \in BOOLEAN,
        d2 \in { directions[i] : i \in 1..Len(directions) },
        seg \in SegmentsAcross }

InitDetect ==
    /\ games = EmptyObject
    /\ keyOrder = << >>
    /\ sockets = [s \in SocketIds |-> "unopened"]
    /\ joined = [s \in SocketIds |-> {}]
    /\ victoryCall \in VictoryCalls

\* checkVictory(board, row, col, player) returns
CheckVictory ==
    /\ victoryCall.state = "called"
    /\ victoryCall' =
          [victoryCall EXCEPT
              !.state = "returned",
              !.result = checkVictory(victoryCall.board, victoryCall.row,
                                      victoryCall.col, victoryCall.player)]
    /\ UNCHANGED <<games, keyOrder, sockets, joined>>

NextDetect == CheckVictory

SpecDetect == InitDetect /\ [][NextDetect]_vars

(***************************************************************************)
(* The messages the properties range over: every connected socket, and     *)
(* every room, name and cell a client of either specification sends.       *)
(***************************************************************************)
Senders == { id \in SocketIds : sockets[id] = "connected" }

MsgRooms == RoomInputs(PlayCodes \cup RoomsCodes)

MsgJoinRooms == JoinInputs(PlayCodes \cup RoomsCodes)

MsgNames == PlayNames \cup RoomsNames

MsgCoords == UNION { PlayCoords[id] \cup RoomsCoords[id] : id \in SocketIds }

Seated(game, id) == \E i \in 1..Len(game.players) : game.players[i] = id

\* id's seat index in game (its first seat) is n
HasSeat(game, id, n) ==
    /\ n + 1 \in 1..Len(game.players)
    /\ game.players[n + 1] = id
    /\ \A j \in 1..n : game.players[j] # id

InBounds(row, col) == 0 <= row /\ row < BoardSize /\ 0 <= col /\ col < BoardSize

\* the cells of the matrix that may differ from 0
Stones(board) == DOMAIN board.stones

AllEmpty(board) == \A k \in Stones(board) : Cell(board, k[1], k[2]) = 0

Axes == { <<1, 0>>, <<0, 1>>, <<1, 1>>, <<1, -1>> }

\* with value at (row,col), board holds WinLength contiguous cells of value
\* on an axis through (row,col)
CompletesLine(board, row, col, value) ==
    \E d \in Axes, k \in 0..(WinLength - 1) :
        \A j \in 0..(WinLength - 1) :
            LET x == row + (j - k) * d[1]
                y == col + (j - k) * d[2]
            IN /\ InBounds(x, y)
               /\ (<<x, y>> = <<row, col>> \/ Cell(board, x, y) = value)

(***************************************************************************)
(* C1: in every reachable state and for every placeStone message of a      *)
(* connected socket, the move is accepted if and only if the room is       *)
(* registered, the sender is seated in it, the sender's seat index equals  *)
(* currentTurn, the cell is on the board and the cell is empty; the first  *)
(* condition that fails decides the error, and a rejected move emits       *)
(* nothing and leaves the registry (boards, turns, scores) as it was.      *)
(***************************************************************************)
C1_MoveAcceptedIff ==
    \A id \in Senders, room \in MsgRooms, rc \in MsgCoords :
        LET row == rc[1]
            col == rc[2]
            r == placeStone(id, room, row, col)
            exists == room \in DOMAIN games
            seated == exists /\ Seated(games[room], id)
            onTurn == seated /\ HasSeat(games[room], id, games[room].currentTurn)
            inBounds == InBounds(row, col)
            empty == exists /\ inBounds /\ Cell(games[room].board, row, col) = 0
        IN /\ IsSuccess(r.ack) <=> (exists /\ seated /\ onTurn /\ inBounds /\ empty)
           /\ ~exists => r.ack = Error("Game not found")
           /\ (exists /\ ~seated) => r.ack = Error("Player not in game")
           /\ (seated /\ ~onTurn) => r.ack = Error("Not your turn")
           /\ (onTurn /\ ~inBounds) => r.ack = Error("Invalid position")
           /\ (onTurn /\ inBounds /\ ~empty) => r.ack = Error("Cell already occupied")
           /\ ~IsSuccess(r.ack) => (r.games = games /\ r.emits = << >>)

\* a game with stones on its board (moves have been accepted) in which the
\* seat on turn is sent an empty cell, an occupied cell and an off-board
\* cell, and the other seat moves out of turn
C1_Witness ==
    \E room \in DOMAIN games :
        /\ ~AllEmpty(games[room].board)
        /\ \E id \in Senders, rc \in MsgCoords :
              IsSuccess(placeStone(id, room, rc[1], rc[2]).ack)
        /\ \E id \in Senders, rc \in MsgCoords :
              placeStone(id, room, rc[1], rc[2]).ack = Error("Cell already occupied")
        /\ \E id \in Senders, rc \in MsgCoords :
              placeStone(id, room, rc[1], rc[2]).ack = Error("Invalid position")
        /\ \E id \in Senders, rc \in MsgCoords :
              placeStone(id, room, rc[1], rc[2]).ack = Error("Not your turn")
        /\ \E id \in Senders, rc \in MsgCoords :
              placeStone(id, ToLowerCase(room), rc[1], rc[2]).ack = Error("Game not found")

(***************************************************************************)
(* C2 (as claimed): a placeStone sent to a session that has exactly one    *)
(* seat is never accepted and leaves the session as it was.                *)
(***************************************************************************)
C2_NoMoveWhileAwaitingOpponent ==
    \A id \in Senders, room \in MsgRooms, rc \in MsgCoords :
        (room \in DOMAIN games /\ Len(games[room].players) = 1) =>
            LET r == placeStone(id, room, rc[1], rc[2]) IN
            /\ ~IsSuccess(r.ack)
            /\ r.games = games

(***************************************************************************)
(* C3: an accepted placeStone that completes a line of five or more for    *)
(* the mover leaves the board all empty, currentTurn at the mover's seat,  *)
(* and the scores as before except the mover's, which is one greater.      *)
(***************************************************************************)
C3_ScoringMove ==
    \A id \in Senders, room \in MsgRooms, rc \in MsgCoords :
        LET r == placeStone(id, room, rc[1], rc[2]) IN
        (/\ IsSuccess(r.ack)
         /\ CompletesLine(games[room].board, rc[1], rc[2], games[room].currentTurn + 1))
        => LET before == games[room]
               after == r.games[room]
           IN /\ AllEmpty(after.board)
              /\ HasSeat(after, id, after.currentTurn)
              /\ DOMAIN after.scores = DOMAIN before.scores
              /\ after.scores[id] = before.scores[id] + 1
              /\ \A p \in DOMAIN before.scores \ {id} : after.scores[p] = before.scores[p]
              /\ \A c \in DOMAIN games \ {room} : r.games[c] = games[c]

\* a move that completes a line is accepted, and scores
C3_Witness ==
    \E id \in Senders, room \in DOMAIN games, rc \in MsgCoords :
        LET r == placeStone(id, room, rc[1], rc[2]) IN
        /\ IsSuccess(r.ack)
        /\ CompletesLine(games[room].board, rc[1], rc[2], games[room].currentTurn + 1)
        /\ r.games[room].scores[id] = 1
        /\ AllEmpty(r.games[room].board)

(***************************************************************************)
(* C4: an accepted placeStone by seat s at (row,col) that completes no     *)
(* line writes s+1 into that cell and changes no other cell, leaves seats, *)
(* names and scores alone, and sets currentTurn to 1 minus its value; as   *)
(* the mover is the seat on turn, the next accepted move of the round is   *)
(* the other seat's.                                                       *)
(***************************************************************************)
C4_PlainMove ==
    \A id \in Senders, room \in MsgRooms, rc \in MsgCoords :
        LET r == placeStone(id, room, rc[1], rc[2]) IN
        (/\ IsSuccess(r.ack)
         /\ ~CompletesLine(games[room].board, rc[1], rc[2], games[room].currentTurn + 1))
        => LET before == games[room]
               after == r.games[room]
               s == before.currentTurn
           IN /\ HasSeat(before, id, s)
              /\ Cell(after.board, rc[1], rc[2]) = s + 1
              /\ \A k \in (Stones(before.board) \cup Stones(after.board)) \ {rc} :
                    Cell(after.board, k[1], k[2]) = Cell(before.board, k[1], k[2])
              /\ after.scores = before.scores
              /\ after.players = before.players
              /\ after.names = before.names
              /\ after.currentTurn = 1 - s
              /\ ~HasSeat(after, id, after.currentTurn)
              /\ \A c \in DOMAIN games \ {room} : r.games[c] = games[c]

\* both seats have stones on the board and the seat on turn is sent a cell
\* that completes no line
C4_Witness ==
    \E id \in Senders, room \in DOMAIN games, rc \in MsgCoords :
        LET r == placeStone(id, room, rc[1], rc[2])
            stones == games[room].board.stones
        IN /\ \E k \in DOMAIN stones : stones[k] = 1
           /\ \E k \in DOMAIN stones : stones[k] = 2
           /\ IsSuccess(r.ack)
           /\ ~CompletesLine(games[room].board, rc[1], rc[2], games[room].currentTurn + 1)
           /\ r.games[room].currentTurn = 1 - games[room].currentTurn

(***************************************************************************)
(* C5: joinGame on a code with no registered session is rejected with      *)
(* 'Game code not found', on a session with two seats with 'Game is full', *)
(* both leaving every session as it was; a successful join appends the     *)
(* joiner as seat 1 with score 0 and touches no other session.  Every      *)
(* registered session has one or two seats.                                *)
(***************************************************************************)
C5_JoinRules ==
    /\ \A c \in DOMAIN games : Len(games[c].players) \in 1..2
    /\ \A id \in Senders, room \in MsgJoinRooms, name \in MsgNames :
        LET r == joinGame(id, room, name)
            code == ToUpperCase(room)
        IN /\ code \notin DOMAIN games =>
                (/\ r.ack = Error("Game code not found")
                 /\ r.games = games
                 /\ r.emits = << >>)
           /\ (code \in DOMAIN games /\ Len(games[code].players) = 2) =>
                (/\ r.ack = Error("Game is full")
                 /\ r.games = games
                 /\ r.emits = << >>)
           /\ (code \in DOMAIN games /\ Len(games[code].players) < 2) =>
                (/\ IsSuccess(r.ack)
                 /\ DOMAIN r.games = DOMAIN games
                 /\ r.games[code].players = << games[code].players[1], id >>
                 /\ r.games[code].scores[id] = 0
                 /\ r.games[code].board = games[code].board
                 /\ r.games[code].currentTurn = games[code].currentTurn
                 /\ \A c \in DOMAIN games \ {code} : r.games[c] = games[c])

\* one room is full and turns a joiner away, another has one seat and takes
\* the joiner as seat 1, and an unknown code is not found
C5_Witness ==
    \E id \in Senders, full \in DOMAIN games, open \in DOMAIN games :
        /\ Len(games[full].players) = 2
        /\ joinGame(id, full, "Ann").ack = Error("Game is full")
        /\ IsSuccess(joinGame(id, ToLowerCase(open), "").ack)
        /\ joinGame(id, ToLowerCase(open), "").games[open].players[2] = id
        /\ joinGame(id, CodeNone, "Ann").ack = Error("Game code not found")

(***************************************************************************)
(* C6 (as claimed): a session with exactly one seat has an all-empty board *)
(* and currentTurn 0, so every gameStarted broadcast carries an all-empty  *)
(* board and currentTurn 0.                                                *)
(***************************************************************************)
C6_WaitingSessionIsFresh ==
    /\ \A c \in DOMAIN games :
          Len(games[c].players) = 1 =>
              (AllEmpty(games[c].board) /\ games[c].currentTurn = 0)
    /\ \A id \in Senders, room \in MsgJoinRooms, name \in MsgNames :
          LET r == joinGame(id, room, name) IN
          \A i \in 1..Len(r.emits) :
              r.emits[i].event = "gameStarted" =>
                  (/\ AllEmpty(r.emits[i].data.board)
                   /\ r.emits[i].data.currentTurn = 0)

(***************************************************************************)
(* C7: an accepted resetGame, whatever the board, the scores and the turn  *)
(* were, leaves the board all empty, the score of every seated identity 0, *)
(* currentTurn 0, and the seats and names as they were.                    *)
(***************************************************************************)
C7_ResetRound ==
    \A id \in Senders, room \in MsgRooms :
        LET r == resetGame(id, room) IN
        IsSuccess(r.ack) =>
            LET before == games[room]
                after == r.games[room]
            IN /\ AllEmpty(after.board)
               /\ \A i \in 1..Len(before.players) :
                     /\ before.players[i] \in DOMAIN after.scores
                     /\ after.scores[before.players[i]] = 0
               /\ after.currentTurn = 0
               /\ after.players = before.players
               /\ after.names = before.names
               /\ \A c \in DOMAIN games \ {room} : r.games[c] = games[c]

\* a reset is accepted in a game with stones on the board, a score above 0
\* and seat 1 on turn
C7_Witness ==
    \E id \in Senders, room \in DOMAIN games :
        /\ ~AllEmpty(games[room].board)
        /\ \E p \in DOMAIN games[room].scores : games[room].scores[p] > 0
        /\ games[room].currentTurn = 1
        /\ Len(games[room].players) = 2
        /\ IsSuccess(resetGame(id, room).ack)
        /\ AllEmpty(resetGame(id, room).games[room].board)

(***************************************************************************)
(* C8 (as claimed): a resetGame for a registered room from a connection    *)
(* not seated in it is rejected with 'Player not in game', broadcasts      *)
(* nothing and leaves the session as it was.                               *)
(***************************************************************************)
C8_ResetOnlyBySeated ==
    \A id \in Senders, room \in MsgRooms :
        (room \in DOMAIN games /\ ~Seated(games[room], id)) =>
            LET r == resetGame(id, room) IN
            /\ r.ack = Error("Player not in game")
            /\ r.emits = << >>
            /\ r.games = games

(***************************************************************************)
(* C9 (as claimed): when the only seated identity of a session             *)
(* disconnects, the session is removed from the registry; and a joinGame,  *)
(* placeStone or resetGame naming a code that is not registered is         *)
(* rejected as not found and registers or changes nothing.                 *)
(***************************************************************************)
C9_SoleOccupantLeaves ==
    /\ \A id \in Senders, room \in DOMAIN games :
          games[room].players = << id >> => room \notin DOMAIN disconnect(id).games
    /\ \A id \in Senders, room \in MsgJoinRooms :
          ToUpperCase(room) \notin DOMAIN games =>
              /\ joinGame(id, room, "Ann").ack = Error("Game code not found")
              /\ joinGame(id, room, "Ann").games = games
              /\ \A rc \in MsgCoords :
                    /\ placeStone(id, ToUpperCase(room), rc[1], rc[2]).ack
                           = Error("Game not found")
                    /\ placeStone(id, ToUpperCase(room), rc[1], rc[2]).games = games
              /\ resetGame(id, ToUpperCase(room)).ack = Error("Game not found")
              /\ resetGame(id, ToUpperCase(room)).games = games

(***************************************************************************)
(* C10 (as claimed): when one of the two seated identities of a session    *)
(* disconnects, the session stays registered with exactly the other        *)
(* identity seated, an all-empty board and currentTurn 0; the leaver has   *)
(* no score and no name left, the other keeps its score and its name.      *)
(***************************************************************************)
C10_OneOfTwoLeaves ==
    \A id \in Senders, room \in DOMAIN games :
        LET before == games[room] IN
        (/\ Len(before.players) = 2
         /\ before.players[1] # before.players[2]
         /\ Seated(before, id))
        => LET r == disconnect(id)
               other == IF before.players[1] = id THEN before.players[2]
                        ELSE before.players[1]
           IN /\ room \in DOMAIN r.games
              /\ r.games[room].players = << other >>
              /\ AllEmpty(r.games[room].board)
              /\ r.games[room].currentTurn = 0
              /\ id \notin DOMAIN r.games[room].scores
              /\ id \notin DOMAIN r.games[room].names
              /\ r.games[room].scores = [p \in {other} |-> before.scores[other]]
              /\ r.games[room].names = [p \in {other} |-> before.names[other]]

(***************************************************************************)
(* C11 (as claimed): in every reachable state each connection identity     *)
(* occupies at most one seat over all registered sessions: it is seated in *)
(* at most one room, and in at most one seat of that room.                 *)
(***************************************************************************)
SeatsOf(id) ==
    { <<c, i>> \in (DOMAIN games) \X (1..2) :
        i <= Len(games[c].players) /\ games[c].players[i] = id }

C11_AtMostOneSeat == \A id \in SocketIds : Cardinality(SeatsOf(id)) <= 1

(***************************************************************************)
(* C12 (as claimed): once the disconnect of an identity has been handled,  *)
(* the identity holds no seat and has no scores or names entry in any      *)
(* registered session; so every registered session seats at least one      *)
(* identity that is still connected.                                       *)
(***************************************************************************)
C12_DisconnectClearsIdentity ==
    /\ \A id \in Senders :
          LET r == disconnect(id) IN
          \A c \in DOMAIN r.games :
              /\ ~Seated(r.games[c], id)
              /\ id \notin DOMAIN r.games[c].scores
              /\ id \notin DOMAIN r.games[c].names
    /\ \A c \in DOMAIN games :
          \E i \in 1..Len(games[c].players) : sockets[games[c].players[i]] = "connected"

C14_FreshCode ==
    /\ \A c \in DOMAIN games :
          /\ Len(c) = CodeLength
          /\ \A i \in 1..Len(c) : c[i] \in Characters
    /\ Len(keyOrder) = Cardinality(DOMAIN games)
    /\ { keyOrder[i] : i \in 1..Len(keyOrder) } = DOMAIN games
    /\ \A id \in Senders, name \in MsgNames :
          \A room \in generateRoomCode(PlayCodes \cup RoomsCodes) :
              LET r == createGame(id, name, room) IN
              /\ room \notin DOMAIN games
              /\ DOMAIN r.games = DOMAIN games \cup {room}
              /\ \A c \in DOMAIN games : r.games[c] = games[c]
              /\ r.games[room].players = << id >>
              /\ r.ack = [room |-> room]
              /\ r.keyOrder = Append(keyOrder, room)

\* a session with two seats and a stone is registered under one of the
\* codes the generator may draw, and a createGame gets the other code
C14_Witness ==
    \E id \in Senders, c \in DOMAIN games :
        /\ Len(games[c].players) = 2
        /\ ~AllEmpty(games[c].board)
        /\ generateRoomCode(RoomsCodes) # {}
        /\ c \in RoomsCodes \ generateRoomCode(RoomsCodes)
        /\ \A room \in generateRoomCode(RoomsCodes) :
              DOMAIN createGame(id, "Ann", room).games = {c, room}

(***************************************************************************)
(* C15 (as claimed): joinGame, placeStone and resetGame given the          *)
(* lower-case spelling of a registered code have the outcome they have     *)
(* with the code itself: the same acknowledgement and the same registry.   *)
(***************************************************************************)
C15_CaseInsensitiveLookups ==
    \A id \in Senders, code \in DOMAIN games :
        /\ \A name \in MsgNames :
              /\ joinGame(id, ToLowerCase(code), name).ack = joinGame(id, code, name).ack
              /\ joinGame(id, ToLowerCase(code), name).games = joinGame(id, code, name).games
        /\ \A rc \in MsgCoords :
              /\ placeStone(id, ToLowerCase(code), rc[1], rc[2]).ack
                     = placeStone(id, code, rc[1], rc[2]).ack
              /\ placeStone(id, ToLowerCase(code), rc[1], rc[2]).games
                     = placeStone(id, code, rc[1], rc[2]).games
        /\ resetGame(id, ToLowerCase(code)).ack = resetGame(id, code).ack
        /\ resetGame(id, ToLowerCase(code)).games = resetGame(id, code).games

(***************************************************************************)
(* C15 (amended): joinGame given the lower-case spelling of a code,        *)
(* registered or not, has the outcome it has with the code itself;         *)
(* placeStone and resetGame look the code up as it is given: a code that   *)
(* is not a key of the registry, also when it differs from a registered    *)
(* code in letter case only, is rejected with 'Game not found', and        *)
(* nothing is changed or broadcast.                                        *)
(***************************************************************************)
C15_JoinLookupCaseInsensitive ==
    /\ \A code \in PlayCodes \cup RoomsCodes \cup {CodeNone} :
          LET lower == ToLowerCase(code) IN
          \A id \in Senders, name \in MsgNames :
              joinGame(id, lower, name) = joinGame(id, code, name)
    /\ \A room \in MsgRooms :
          (room \notin DOMAIN games /\ ToUpperCase(room) \in DOMAIN games) =>
              \A id \in Senders :
                  /\ \A rc \in MsgCoords :
                        placeStone(id, room, rc[1], rc[2]) = Rejected(Error("Game not found"))
                  /\ resetGame(id, room) = Rejected(Error("Game not found"))

\* a registered code whose lower-case spelling differs from it: a joiner is
\* let in under the lower-case spelling, while the move and the reset that
\* are accepted under the code are not found under the lower-case spelling
C15_Witness ==
    \E id \in Senders, mover \in Senders, code \in DOMAIN games, rc \in MsgCoords :
        /\ ToLowerCase(code) # code
        /\ ToLowerCase(code) \notin DOMAIN games
        /\ IsSuccess(joinGame(id, ToLowerCase(code), "Ann").ack)
        /\ Len(joinGame(id, ToLowerCase(code), "Ann").games[code].players) = 2
        /\ IsSuccess(placeStone(mover, code, rc[1], rc[2]).ack)
        /\ placeStone(mover, ToLowerCase(code), rc[1], rc[2]).ack = Error("Game not found")
        /\ IsSuccess(resetGame(mover, code).ack)
        /\ resetGame(mover, ToLowerCase(code)).ack = Error("Game not found")

(***************************************************************************)
(* The contiguous run through a cell, stated without the traversal loops:  *)
(* offset k belongs to the run of value through (row,col) on axis d when   *)
(* every cell from (row,col) to the cell k steps along d is on the board   *)
(* and holds value.                                                        *)
(***************************************************************************)
RunOffsets(board, row, col, d, value) ==
    { k \in (1 - BoardSize)..(BoardSize - 1) :
        \A j \in (IF k < 0 THEN k ELSE 0)..(IF k < 0 THEN 0 ELSE k) :
            /\ InBounds(row + j * d[1], col + j * d[2])
            /\ Cell(board, row + j * d[1], col + j * d[2]) = value }

RunLength(board, row, col, d, value) == Cardinality(RunOffsets(board, row, col, d, value))

\* vertical, horizontal, diagonal down-right, diagonal down-left
AxisOrder == << <<1, 0>>, <<0, 1>>, <<1, 1>>, <<1, -1>> >>

(***************************************************************************)
(* C16: for a call of checkVictory at a cell of the board that holds the   *)
(* mover's value, a line is returned if and only if on one of the four     *)
(* axes the contiguous run of the mover's cells through (row,col) has      *)
(* length five or more; the cells returned are on the board, hold the      *)
(* mover's value and lie on one axis through (row,col).                    *)
(***************************************************************************)
C16_LineIffRunOfFive ==
    (/\ victoryCall.state = "returned"
     /\ InBounds(victoryCall.row, victoryCall.col)
     /\ Cell(victoryCall.board, victoryCall.row, victoryCall.col) = victoryCall.player)
    => LET board == victoryCall.board
           row == victoryCall.row
           col == victoryCall.col
           player == victoryCall.player
           line == victoryCall.result
       IN /\ (line # << >>) <=>
                 \E d \in Axes : RunLength(board, row, col, d, player) >= WinLength
          /\ \E d \in Axes :
                \A i \in 1..Len(line) :
                    /\ InBounds(line[i][1], line[i][2])
                    /\ Cell(board, line[i][1], line[i][2]) = player
                    /\ \E k \in (1 - BoardSize)..(BoardSize - 1) :
                          line[i] = <<row + k * d[1], col + k * d[2]>>

\* a call next to the corner of a board that holds stones of both values
\* returns a line
C16_Witness ==
    /\ victoryCall.state = "returned"
    /\ victoryCall.result # << >>
    /\ victoryCall.row = 1
    /\ \E k \in Stones(victoryCall.board) :
          Cell(victoryCall.board, k[1], k[2]) = 3 - victoryCall.player

(***************************************************************************)
(* C17: a returned line is the whole contiguous run through (row,col) on   *)
(* the first axis, in the order vertical, horizontal, down-right,          *)
(* down-left, whose run has length five or more: the placed cell, then the *)
(* cells of the run in the direction of the axis going away from it, then  *)
(* the cells against the direction going away from it, none repeated.      *)
(***************************************************************************)
C17_FirstAxisWholeRun ==
    (victoryCall.state = "returned" /\ victoryCall.result # << >>)
    => LET board == victoryCall.board
           row == victoryCall.row
           col == victoryCall.col
           player == victoryCall.player
           line == victoryCall.result
           reaching == { i \in 1..Len(AxisOrder) :
                           RunLength(board, row, col, AxisOrder[i], player) >= WinLength }
       IN /\ reaching # {}
          /\ LET first == CHOOSE i \in reaching : \A j \in reaching : i <= j
                 d == AxisOrder[first]
                 run == RunOffsets(board, row, col, d, player)
                 forward == Cardinality({ k \in run : k > 0 })
                 backward == Cardinality({ k \in run : k < 0 })
             IN /\ line = << <<row, col>> >>
                        \o [k \in 1..forward |-> <<row + k * d[1], col + k * d[2]>>]
                        \o [k \in 1..backward |-> <<row - k * d[1], col - k * d[2]>>]
                /\ Len(line) = Cardinality(run)
                /\ \A i, j \in 1..Len(line) : i # j => line[i] # line[j]

\* runs of five or more on two axes, the returned one longer than five and
\* extending from the placed cell both ways
C17_Witness ==
    /\ victoryCall.state = "returned"
    /\ Len(victoryCall.result) > WinLength
    /\ Cardinality({ d \in Axes :
                       RunLength(victoryCall.board, victoryCall.row, victoryCall.col,
                                 d, victoryCall.player) >= WinLength }) >= 2
    /\ \E d \in Axes :
          /\ victoryCall.result[2]
                 = <<victoryCall.row + d[1], victoryCall.col + d[2]>>
          /\ victoryCall.result[Len(victoryCall.result)]
                 # <<victoryCall.row + (Len(victoryCall.result) - 1) * d[1],
                      victoryCall.col + (Len(victoryCall.result) - 1) * d[2]>>

(***************************************************************************)
(* The case of C18: the seat on turn holds (7,3)..(7,6), the cell (7,7) is *)
(* empty and is the rightmost cell of the run, and the stone at (7,7)      *)
(* completes no vertical run of five (the axis looked at first).           *)
(***************************************************************************)
CompletesRowAtRightEnd(game) ==
    LET value == game.currentTurn + 1 IN
    /\ \A c \in 3..6 : Cell(game.board, 7, c) = value
    /\ Cell(game.board, 7, 7) = 0
    /\ Cell(game.board, 7, 8) # value
    /\ RunLength(SetCell(game.board, 7, 7, value), 7, 7, <<1, 0>>, value) < WinLength

\* the winPositions of the scoreUpdate broadcasts of a handler's result
WinLinesOf(r) ==
    { r.emits[i].data.winPositions :
        i \in { j \in 1..Len(r.emits) : r.emits[j].event = "scoreUpdate" } }

(***************************************************************************)
(* C18 (as claimed): when the accepted move at (7,7) completes the         *)
(* horizontal run (7,3)..(7,7) at its rightmost cell, the winPositions of  *)
(* the scoreUpdate broadcast are [[7,3],[7,4],[7,5],[7,6],[7,7]].          *)
(***************************************************************************)
C18_WinLineLeftToRight ==
    \A id \in Senders, room \in DOMAIN games :
        LET r == placeStone(id, room, 7, 7) IN
        (IsSuccess(r.ack) /\ CompletesRowAtRightEnd(games[room])) =>
            WinLinesOf(r) = { << <<7, 3>>, <<7, 4>>, <<7, 5>>, <<7, 6>>, <<7, 7>> >> }

(***************************************************************************)
(* C18 (amended): in that case the winPositions of the scoreUpdate         *)
(* broadcast list the placed cell first and then the cells of the run      *)
(* going away from it, in decreasing column order:                         *)
(* [[7,7],[7,6],[7,5],[7,4],[7,3]].                                        *)
(***************************************************************************)
C18_WinLineFromPlacedCell ==
    \A id \in Senders, room \in DOMAIN games :
        LET r == placeStone(id, room, 7, 7) IN
        (IsSuccess(r.ack) /\ CompletesRowAtRightEnd(games[room])) =>
            WinLinesOf(r) = { << <<7, 7>>, <<7, 6>>, <<7, 5>>, <<7, 4>>, <<7, 3>> >> }

\* the move at (7,7) that completes the row is accepted, on a board on
\* which the opponent has stones in the column of (7,7)
C18_Witness ==
    \E id \in Senders, room \in DOMAIN games :
        /\ CompletesRowAtRightEnd(games[room])
        /\ IsSuccess(placeStone(id, room, 7, 7).ack)
        /\ \E row \in 3..6 :
              Cell(games[room].board, row, 7) = 2 - games[room].currentTurn
        /\ WinLinesOf(placeStone(id, room, 7, 7)) # {}

(***************************************************************************)
(* C19: the messages of one placeStone.  Rejected: an error                *)
(* acknowledgement and no broadcast.  Accepted without a line: a success   *)
(* acknowledgement and exactly one broadcast, moveMade, to the room, with  *)
(* the board and turn of the session.  Accepted with a line: a success     *)
(* acknowledgement and exactly two broadcasts to the room, first           *)
(* scoreUpdate with the scores after the increment, the scorer and a line  *)
(* through the placed cell, then moveMade with the all-empty board and the *)
(* scorer's seat as currentTurn.                                           *)
(***************************************************************************)
C19_MessagesOfAMove ==
    \A id \in Senders, room \in MsgRooms, rc \in MsgCoords :
        LET r == placeStone(id, room, rc[1], rc[2]) IN
        IF ~IsSuccess(r.ack)
        THEN /\ DOMAIN r.ack = {"error"}
             /\ r.emits = << >>
        ELSE
        LET before == games[room]
            after == r.games[room]
            to == RoomMembers(joined, room)
            last == r.emits[Len(r.emits)]
        IN /\ r.ack = Success
           /\ last.event = "moveMade"
           /\ last.to = to
           /\ last.data.row = rc[1] /\ last.data.col = rc[2]
           /\ HasSeat(before, id, last.data.playerIndex)
           /\ last.data.board = after.board
           /\ last.data.currentTurn = after.currentTurn
           /\ IF ~CompletesLine(before.board, rc[1], rc[2], before.currentTurn + 1)
              THEN /\ Len(r.emits) = 1
                   /\ Cell(last.data.board, rc[1], rc[2]) = before.currentTurn + 1
              ELSE /\ Len(r.emits) = 2
                   /\ r.emits[1].event = "scoreUpdate"
                   /\ r.emits[1].to = to
                   /\ r.emits[1].data.winner = id
                   /\ r.emits[1].data.scores =
                          [before.scores EXCEPT ![id] = before.scores[id] + 1]
                   /\ Len(r.emits[1].data.winPositions) >= WinLength
                   /\ r.emits[1].data.winPositions[1] = rc
                   /\ AllEmpty(last.data.board)
                   /\ HasSeat(before, id, last.data.currentTurn)

\* in one state of a two-seat session, both seats in the Socket.IO room, a
\* move of the seat on turn is rejected and broadcasts nothing and another
\* is accepted with a line and broadcasts scoreUpdate, then moveMade
C19_Witness ==
    \E id \in Senders, room \in DOMAIN games :
        /\ Len(games[room].players) = 2
        /\ RoomMembers(joined, room) = { games[room].players[1], games[room].players[2] }
        /\ \E rc \in MsgCoords :
              /\ placeStone(id, room, rc[1], rc[2]).ack = Error("Cell already occupied")
              /\ placeStone(id, room, rc[1], rc[2]).emits = << >>
        /\ \E rc \in MsgCoords :
              LET r == placeStone(id, room, rc[1], rc[2]) IN
              /\ IsSuccess(r.ack)
              /\ Len(r.emits) = 2
              /\ r.emits[1].event = "scoreUpdate"
              /\ r.emits[2].event = "moveMade"

(***************************************************************************)
(* C20 (as claimed): whatever message is handled, the score of an identity *)
(* that stays seated is what it was, except that the mover's own score is  *)
(* one greater after its move completes a line and that a resetGame sets   *)
(* the scores of the room to 0: no other accepted or rejected move, no     *)
(* joinGame, no createGame and no disconnect of another identity changes   *)
(* it.                                                                     *)
(***************************************************************************)
\* the sessions c and identities p with a seat and a score in c that keep
\* the seat in the registry after
StaysSeated(after, c, p) ==
    /\ c \in DOMAIN games /\ c \in DOMAIN after
    /\ Seated(games[c], p) /\ Seated(after[c], p)
    /\ p \in DOMAIN games[c].scores

ScoreKept(after, c, p) ==
    /\ p \in DOMAIN after[c].scores
    /\ after[c].scores[p] = games[c].scores[p]

C20_ScoresPersist ==
    \A id \in Senders, c \in DOMAIN games, p \in SocketIds :
        /\ \A room \in MsgRooms, rc \in MsgCoords :
              LET r == placeStone(id, room, rc[1], rc[2]) IN
              StaysSeated(r.games, c, p) =>
                  IF /\ IsSuccess(r.ack) /\ c = room /\ p = id
                     /\ CompletesLine(games[c].board, rc[1], rc[2], games[c].currentTurn + 1)
                  THEN r.games[c].scores[p] = games[c].scores[p] + 1
                  ELSE ScoreKept(r.games, c, p)
        /\ \A room \in MsgRooms :
              LET r == resetGame(id, room) IN
              StaysSeated(r.games, c, p) =>
                  IF IsSuccess(r.ack) /\ c = room
                  THEN r.games[c].scores[p] = 0
                  ELSE ScoreKept(r.games, c, p)
        /\ \A room \in MsgJoinRooms, name \in MsgNames :
              LET r == joinGame(id, room, name) IN
              StaysSeated(r.games, c, p) => ScoreKept(r.games, c, p)
        /\ \A room \in generateRoomCode(PlayCodes \cup RoomsCodes) :
              LET r == createGame(id, "Ann", room) IN
              StaysSeated(r.games, c, p) => ScoreKept(r.games, c, p)
        /\ LET r == disconnect(id) IN
           (p # id /\ StaysSeated(r.games, c, p)) => ScoreKept(r.games, c, p)

(***************************************************************************)
(* C21: between two messages no board of a registered session holds        *)
(* WinLength contiguous cells of one non-empty value on a row, a column or *)
(* a diagonal; and the board every accepted placeStone leaves holds none   *)
(* either: the move that completes a line clears the board in the same     *)
(* step.                                                                   *)
(***************************************************************************)
\* the WinLength cells from cell k in direction d all hold value (a cell off
\* the board holds none)
LineFrom(board, k, d, value) ==
    \A j \in 0..(WinLength - 1) :
        /\ InBounds(k[1] + j * d[1], k[2] + j * d[2])
        /\ Cell(board, k[1] + j * d[1], k[2] + j * d[2]) = value

NoLine(board) ==
    \A k \in Stones(board) :
        LET value == Cell(board, k[1], k[2]) IN
        value # 0 => \A d \in Axes : ~LineFrom(board, k, d, value)

LinesMsgCoords == UNION { LinesCoords[id] : id \in SocketIds }

C21_NoLineLeftOnBoard ==
    \A room \in DOMAIN games :
        /\ NoLine(games[room].board)
        /\ \A id \in Senders :
              HasSeat(games[room], id, games[room].currentTurn) =>
                  \A rc \in LinesMsgCoords :
                      LET r == placeStone(id, room, rc[1], rc[2]) IN
                      IsSuccess(r.ack) => NoLine(r.games[room].board)

\* a round has been won and its board cleared, the board of the next round
\* holds four in a line, and the seat on turn has a move that completes a
\* line and leaves the board empty
C21_Witness ==
    \E room \in DOMAIN games :
        /\ \E p \in DOMAIN games[room].scores : games[room].scores[p] >= 1
        /\ \E id \in Senders, rc \in LinesMsgCoords :
              LET r == placeStone(id, room, rc[1], rc[2]) IN
              /\ IsSuccess(r.ack)
              /\ CompletesLine(games[room].board, rc[1], rc[2], games[room].currentTurn + 1)
              /\ ~AllEmpty(games[room].board)
              /\ AllEmpty(r.games[room].board)

(***************************************************************************)
(* C22 (as claimed): in every registered session the keys of scores and    *)
(* the keys of names are each exactly the identities seated.               *)
(***************************************************************************)
SeatedIn(game) == { game.players[i] : i \in 1..Len(game.players) }

C22_EntriesAreTheSeated ==
    \A room \in DOMAIN games :
        /\ DOMAIN games[room].scores = SeatedIn(games[room])
        /\ DOMAIN games[room].names = SeatedIn(games[room])

(***************************************************************************)
(* C23 (as claimed): play can always continue: in every session with two   *)
(* seats the identity at seat currentTurn has a placeStone that is         *)
(* accepted, so that no session has a full board without a line, on which  *)
(* every further move is rejected as occupied.                             *)
(***************************************************************************)
\* some cell of the board at which placeStone of id in room is accepted
HasAcceptedMove(id, room) ==
    \E row \in 0..(BoardSize - 1), col \in 0..(BoardSize - 1) :
        IsSuccess(placeStone(id, room, row, col).ack)

====
